---- MODULE Spec2Model ----
(***************************************************************************)
(* Model of the Samruddhi portfolio pipeline: src/app.py (file parser and  *)
(* sync engine) and src/daily_nav.py (price refresh).                      *)
(*                                                                         *)
(* Text values are sequences of one-character strings, so that upper(),    *)
(* lower(), strip(), substring tests and the PAN pattern are computed.     *)
(* None (and the empty string, which the code treats alike through         *)
(* truthiness) is the empty sequence.                                      *)
(*                                                                         *)
(* Unit amounts are integers counting 1e-5 units; money amounts are        *)
(* integers counting 1e-5 rupees; a NAV is a whole number of rupees.       *)
(* round(x, 4) and round(x, 2) are computed on these exact decimals with   *)
(* ties to even.                                                           *)
(***************************************************************************)
EXTENDS Integers, Sequences, FiniteSets, TLC

----------------------------------------------------------------------------
(* Text *)

None == <<>>

Lowers == <<"a","b","c","d","e","f","g","h","i","j","k","l","m",
            "n","o","p","q","r","s","t","u","v","w","x","y","z">>
Uppers == <<"A","B","C","D","E","F","G","H","I","J","K","L","M",
            "N","O","P","Q","R","S","T","U","V","W","X","Y","Z">>
Digits == <<"0","1","2","3","4","5","6","7","8","9">>

\* The characters of the model's texts, in code-point order.
Alphabet == <<" ", "\"", "'", ",", "-", ".">> \o Digits \o <<"@">> \o Uppers
            \o <<"_">> \o Lowers

Range(f) == {f[i] : i \in DOMAIN f}

CharSet == Range(Alphabet)

UpperMap == [c \in CharSet |->
               IF \E i \in DOMAIN Lowers : Lowers[i] = c
               THEN Uppers[CHOOSE i \in DOMAIN Lowers : Lowers[i] = c]
               ELSE c]

LowerMap == [c \in CharSet |->
               IF \E i \in DOMAIN Uppers : Uppers[i] = c
               THEN Lowers[CHOOSE i \in DOMAIN Uppers : Uppers[i] = c]
               ELSE c]

OrdMap == [c \in CharSet |-> CHOOSE i \in DOMAIN Alphabet : Alphabet[i] = c]

\* str.upper()
Upper(s) == [i \in DOMAIN s |-> UpperMap[s[i]]]

\* str.lower()
Lower(s) == [i \in DOMAIN s |-> LowerMap[s[i]]]

\* needle in hay
Contains(hay, needle) ==
    \E i \in 0..(Len(hay) - Len(needle)) :
        \A j \in 1..Len(needle) : hay[i + j] = needle[j]

\* hay.startswith(p)
StartsWith(hay, p) ==
    /\ Len(p) <= Len(hay)
    /\ \A j \in 1..Len(p) : hay[j] = p[j]

\* hay.endswith(p)
EndsWith(hay, p) ==
    /\ Len(p) <= Len(hay)
    /\ \A j \in 1..Len(p) : hay[Len(hay) - Len(p) + j] = p[j]

\* str.strip(): leading and trailing blanks removed
Strip(s) ==
    LET nb == {i \in DOMAIN s : s[i] # " "}
    IN IF nb = {} THEN <<>>
       ELSE LET lo == CHOOSE i \in nb : \A j \in nb : i <= j
                hi == CHOOSE i \in nb : \A j \in nb : j <= i
            IN SubSeq(s, lo, hi)

\* str.replace(c, ""): every occurrence of the character removed
RECURSIVE RemoveChar(_, _)
RemoveChar(s, c) ==
    IF s = <<>> THEN <<>>
    ELSE (IF Head(s) = c THEN <<>> ELSE <<Head(s)>>) \o RemoveChar(Tail(s), c)

\* Lexicographic order of two texts by code point (the order pandas sorts
\* group keys in).
RECURSIVE TextLess(_, _)
TextLess(a, b) ==
    IF b = <<>> THEN FALSE
    ELSE IF a = <<>> THEN TRUE
    ELSE IF Head(a) # Head(b) THEN OrdMap[Head(a)] < OrdMap[Head(b)]
    ELSE TextLess(Tail(a), Tail(b))

----------------------------------------------------------------------------
(* Numbers *)

\* round(x, n) with ties to even, x an exact decimal counted in steps of
\* 1e-5 and step the size of the kept digit in those steps.
RoundTo(x, step) ==
    LET q == x \div step
        r == x % step
    IN IF 2 * r < step THEN q * step
       ELSE IF 2 * r > step THEN (q + 1) * step
       ELSE IF q % 2 = 0 THEN q * step ELSE (q + 1) * step

\* 1e-4 units, the digit round(final_units, 4) keeps
Round4Step == 10

\* 1e-2 rupees, the digit round(final_units * nav, 2) keeps
Round2Step == 1000

Round4(x) == RoundTo(x, Round4Step)

Round2(x) == RoundTo(x, Round2Step)

----------------------------------------------------------------------------
(* The persisted store: the tables the two programs share.                 *)
(*   clients            sequence of rows   [pan, name, email, phone]       *)
(*   portfolio_snapshot function (pan, scheme_name) -> row                 *)
(*   staging_clients    sequence of inserted rows                          *)
(*   watched_schemes    sequence of rows [scheme_code, scheme_name, nav,   *)
(*                      current_nav, last_nav_date, isin1, isin2]          *)

\* The outcome of each store call of one sync_to_db run: which calls raise.
NoFails == [clients_select |-> FALSE, nav_select |-> FALSE, delete |-> FALSE,
            client_upsert |-> {}, staging |-> FALSE,
            pos_read |-> {}, pos_upsert |-> {}]

\* name_map = {item['name'].strip().upper(): item['pan'] for item in
\*             db_clients.data if item['name'] and item['pan']}
\* (a later row replaces an earlier one under the same key)
RECURSIVE NameMapFrom(_, _)
NameMapFrom(rows, acc) ==
    IF rows = <<>> THEN acc
    ELSE LET item == Head(rows)
             key  == Upper(Strip(item.name))
             nxt  == IF item.name # None /\ item.pan # None
                     THEN [k \in (DOMAIN acc) \cup {key} |->
                             IF k = key THEN item.pan ELSE acc[k]]
                     ELSE acc
         IN NameMapFrom(Tail(rows), nxt)

\* The empty dict.
EmptyMap == [k \in {} |-> None]

BuildNameMap(clients, fails) ==
    IF fails.clients_select THEN EmptyMap ELSE NameMapFrom(clients, EmptyMap)

\* fetch_latest_navs: nav_map[item['scheme_name']] = float(item['nav']) over
\* every watched row; a failed select leaves the map empty.
RECURSIVE NavMapFrom(_, _)
NavMapFrom(rows, acc) ==
    IF rows = <<>> THEN acc
    ELSE LET item == Head(rows)
         IN NavMapFrom(Tail(rows),
                [k \in (DOMAIN acc) \cup {item.scheme_name} |->
                    IF k = item.scheme_name THEN item.nav ELSE acc[k]])

fetch_latest_navs(watched, fails) ==
    IF fails.nav_select THEN EmptyMap ELSE NavMapFrom(watched, EmptyMap)

\* fill_pan(row)
fill_pan(row, name_map) ==
    IF row.pan = None /\ row.name # None
    THEN LET key == Upper(Strip(row.name))
         IN IF key \in DOMAIN name_map THEN name_map[key] ELSE None
    ELSE row.pan

\* df['pan'] = df.apply(fill_pan, axis=1)
FillPans(data, name_map) ==
    [i \in DOMAIN data |-> [data[i] EXCEPT !.pan = fill_pan(data[i], name_map)]]

\* unique_reset_pans = df[df['pan'].notna()]['pan'].unique()
UniqueResetPans(df) == {df[i].pan : i \in {j \in DOMAIN df : df[j].pan # None}}

\* A reset delete that zeroes the rows instead of removing them.
DeletePans_Zeroes(positions, pans) ==
    [k \in DOMAIN positions |->
        IF k[1] \in pans
        THEN [positions[k] EXCEPT !.total_units = 0, !.current_value = 0]
        ELSE positions[k]]

\* supabase.table('portfolio_snapshot').delete().in_('pan', pans)
DeletePans(positions, pans) ==
    [k \in {q \in DOMAIN positions : q[1] \notin pans} |-> positions[k]]

\* df[['pan','name','email','phone']].drop_duplicates(subset=['pan']):
\* the first row of every pan value (None counts as a value), in row order.
RECURSIVE DropDuplicates(_, _)
DropDuplicates(df, seen) ==
    IF df = <<>> THEN <<>>
    ELSE IF Head(df).pan \in seen THEN DropDuplicates(Tail(df), seen)
    ELSE <<[pan |-> Head(df).pan, name |-> Head(df).name,
            email |-> Head(df).email, phone |-> Head(df).phone]>>
         \o DropDuplicates(Tail(df), seen \cup {Head(df).pan})

\* supabase.table('clients').upsert(payload): payload holds the non-empty
\* fields of the row; a stored row of that pan keeps the fields the payload
\* does not carry, a new row is appended.
UpsertClient(clients, row) ==
    IF \E i \in DOMAIN clients : clients[i].pan = row.pan
    THEN [i \in DOMAIN clients |->
            IF clients[i].pan = row.pan
            THEN [pan   |-> row.pan,
                  name  |-> IF row.name # None THEN row.name ELSE clients[i].name,
                  email |-> IF row.email # None THEN row.email ELSE clients[i].email,
                  phone |-> IF row.phone # None THEN row.phone ELSE clients[i].phone]
            ELSE clients[i]]
    ELSE Append(clients, row)

\* for _, row in unique_clients.iterrows(): if row['pan'] and row['name']:
\*     try: upsert(payload)   except: pass
RECURSIVE SyncClients(_, _, _)
SyncClients(clients, unique_clients, fails) ==
    IF unique_clients = <<>> THEN clients
    ELSE LET row == Head(unique_clients)
             nxt == IF row.pan # None /\ row.name # None
                       /\ row.pan \notin fails.client_upsert
                    THEN UpsertClient(clients, row)
                    ELSE clients
         IN SyncClients(nxt, Tail(unique_clients), fails)

\* range(0, len(staging_data), 100): the rows of one insert call
ChunkSize == 100

StagingRecord(r) ==
    [pan |-> r.pan, name |-> r.name, email |-> r.email, phone |-> r.phone,
     scheme |-> r.scheme, units |-> r.units, action |-> r.action]

\* The chunked insert; a raising insert ends the loop (the chunks before it
\* stay inserted). Returns the log and whether the loop raised.
RECURSIVE InsertChunks(_, _, _)
InsertChunks(staging, rows, fails) ==
    IF rows = <<>> THEN [staging |-> staging, raised |-> FALSE]
    ELSE IF fails.staging THEN [staging |-> staging, raised |-> TRUE]
    ELSE LET n == IF Len(rows) < ChunkSize THEN Len(rows) ELSE ChunkSize
         IN InsertChunks(staging \o SubSeq(rows, 1, n),
                         SubSeq(rows, n + 1, Len(rows)), fails)

\* portfolio_df = df[df['scheme'].notna() & df['pan'].notna()]
PortfolioRows(df) == SelectSeq(df, LAMBDA r : r.scheme # None /\ r.pan # None)

\* lambda x: -x['units'] if x['action'] == 'DEDUCT' else x['units']
SignedUnits(x) == IF x.action = "DEDUCT" THEN -x.units ELSE x.units

\* A grouping that keeps the last row of a group instead of adding the rows.
RECURSIVE GroupSum_LastWins(_, _)
GroupSum_LastWins(rows, acc) ==
    IF rows = <<>> THEN acc
    ELSE LET x == Head(rows)
             k == <<x.pan, x.scheme>>
         IN GroupSum_LastWins(Tail(rows),
                [q \in (DOMAIN acc) \cup {k} |->
                    IF q = k THEN (IF x.action = "DEDUCT" THEN -x.units ELSE x.units)
                    ELSE acc[q]])

\* groupby(['pan','scheme'])['signed_units'].sum(): the rows are added in
\* row order into their group.
RECURSIVE GroupSum(_, _)
GroupSum(rows, acc) ==
    IF rows = <<>> THEN acc
    ELSE LET x == Head(rows)
             k == <<x.pan, x.scheme>>
         IN GroupSum(Tail(rows),
                [q \in (DOMAIN acc) \cup {k} |->
                    IF q = k
                    THEN (IF k \in DOMAIN acc THEN acc[k] ELSE 0) + SignedUnits(x)
                    ELSE acc[q]])

EmptyAgg == [k \in {} |-> 0]

Aggregate(df) == GroupSum(PortfolioRows(df), EmptyAgg)

KeyLess(a, b) == \/ TextLess(a[1], b[1])
                 \/ a[1] = b[1] /\ TextLess(a[2], b[2])

\* The groups in the order reset_index() lists them: sorted by (pan, scheme).
RECURSIVE SortedKeys(_)
SortedKeys(keys) ==
    IF keys = {} THEN <<>>
    ELSE LET m == CHOOSE k \in keys : \A q \in keys \ {k} : KeyLess(k, q)
         IN <<m>> \o SortedKeys(keys \ {m})

\* A baseline that never reads the stored row.
CurrentUnits_NeverReads(positions, key, is_reset_mode) == 0

\* The baseline of one key: 0.0 in reset mode, else the stored total_units
\* (0.0 when no row is stored).
CurrentUnits(positions, key, is_reset_mode) ==
    IF is_reset_mode THEN 0
    ELSE IF key \in DOMAIN positions THEN positions[key].total_units ELSE 0

\* The row the upsert writes; the columns the payload does not carry keep
\* their stored value (NULL in a new row).
SnapshotRow(positions, key, final_units, nav, now) ==
    [total_units   |-> Round4(final_units),
     current_value |-> Round2(final_units * nav),
     nav           |-> nav,
     updated_at    |-> now,
     scheme_code   |-> IF key \in DOMAIN positions
                       THEN positions[key].scheme_code ELSE None,
     nav_date      |-> IF key \in DOMAIN positions
                       THEN positions[key].nav_date ELSE None]

\* An upsert that replaces the table by the row written.
UpsertSnapshot_ReplacesTable(positions, key, row) == [q \in {key} |-> row]

UpsertSnapshot(positions, key, row) ==
    [q \in (DOMAIN positions) \cup {key} |-> IF q = key THEN row ELSE positions[q]]

\* A merge inside the try block of the staging insert: once the insert has
\* raised, no key is merged.
MergeKey_SkippedAfterStagingError(st, key, net_change, nav_map, is_reset_mode, now, fails) ==
    IF fails.staging THEN st
    ELSE IF (~is_reset_mode /\ key \in fails.pos_read) \/ key \in fails.pos_upsert
    THEN [st EXCEPT !.errors = Append(@, [kind |-> "Portfolio Error", pan |-> key[1]])]
    ELSE LET current_units == CurrentUnits(st.positions, key, is_reset_mode)
             final_units   == current_units + net_change
             nav           == IF key[2] \in DOMAIN nav_map THEN nav_map[key[2]] ELSE 0
         IN [st EXCEPT !.positions =
                UpsertSnapshot(@, key, SnapshotRow(@, key, final_units, nav, now))]

\* One pass of the loop over aggregated.iterrows().
MergeKey(st, key, net_change, nav_map, is_reset_mode, now, fails) ==
    IF (~is_reset_mode /\ key \in fails.pos_read) \/ key \in fails.pos_upsert
    THEN [st EXCEPT !.errors = Append(@, [kind |-> "Portfolio Error", pan |-> key[1]])]
    ELSE LET current_units == CurrentUnits(st.positions, key, is_reset_mode)
             final_units   == current_units + net_change
             nav           == IF key[2] \in DOMAIN nav_map THEN nav_map[key[2]] ELSE 0
         IN [st EXCEPT !.positions =
                UpsertSnapshot(@, key, SnapshotRow(@, key, final_units, nav, now))]

\* A loop with the try block around it instead of inside it: the first key
\* that fails ends the loop.
RECURSIVE MergeLoop_StopsAtError(_, _, _, _, _, _, _)
MergeLoop_StopsAtError(st, keys, aggregated, nav_map, is_reset_mode, now, fails) ==
    IF keys = <<>> THEN st
    ELSE LET nxt == MergeKey(st, Head(keys), aggregated[Head(keys)], nav_map,
                             is_reset_mode, now, fails)
         IN IF Len(nxt.errors) > Len(st.errors) THEN nxt
            ELSE MergeLoop_StopsAtError(nxt, Tail(keys), aggregated, nav_map,
                                        is_reset_mode, now, fails)

RECURSIVE MergeLoop(_, _, _, _, _, _, _)
MergeLoop(st, keys, aggregated, nav_map, is_reset_mode, now, fails) ==
    IF keys = <<>> THEN st
    ELSE MergeLoop(MergeKey(st, Head(keys), aggregated[Head(keys)], nav_map,
                            is_reset_mode, now, fails),
                   Tail(keys), aggregated, nav_map, is_reset_mode, now, fails)

\* sync_to_db(data, is_reset_mode) over the store db at time now.
\* Returns the tables after the run, what the run returned (count, errors)
\* and its intermediate values df, aggregated, nav_map.
sync_to_db(db, data, is_reset_mode, now, fails) ==
    IF data = <<>>
    THEN [clients |-> db.clients, positions |-> db.positions, staging |-> db.staging,
          df |-> <<>>, aggregated |-> EmptyAgg, nav_map |-> EmptyMap,
          count |-> 0, errors |-> <<[kind |-> "No data found", pan |-> None]>>]
    ELSE
    LET name_map == BuildNameMap(db.clients, fails)
        nav_map  == fetch_latest_navs(db.watched, fails)
        df       == FillPans(data, name_map)
        pans     == UniqueResetPans(df)
        doReset  == is_reset_mode /\ pans # {}
        pos1     == IF doReset /\ ~fails.delete
                    THEN DeletePans(db.positions, pans) ELSE db.positions
        err1     == IF ~doReset THEN <<>>
                    ELSE IF fails.delete THEN <<[kind |-> "Reset Failed", pan |-> None]>>
                    ELSE <<[kind |-> "RESET TRIGGERED", pan |-> None]>>
        clients1 == SyncClients(db.clients, DropDuplicates(df, {}), fails)
        ins      == InsertChunks(db.staging,
                                 [i \in DOMAIN df |-> StagingRecord(df[i])], fails)
        err2     == IF ins.raised
                    THEN Append(err1, [kind |-> "Staging Error", pan |-> None])
                    ELSE err1
        aggregated == Aggregate(df)
        merged   == MergeLoop([positions |-> pos1, errors |-> err2],
                              SortedKeys(DOMAIN aggregated), aggregated, nav_map,
                              is_reset_mode, now, fails)
    IN [clients |-> clients1, positions |-> merged.positions, staging |-> ins.staging,
        df |-> df, aggregated |-> aggregated, nav_map |-> nav_map,
        count |-> Len(data), errors |-> merged.errors]

----------------------------------------------------------------------------
(* daily_nav.py *)

Months == << <<"J","a","n">>, <<"F","e","b">>, <<"M","a","r">>, <<"A","p","r">>,
            <<"M","a","y">>, <<"J","u","n">>, <<"J","u","l">>, <<"A","u","g">>,
            <<"S","e","p">>, <<"O","c","t">>, <<"N","o","v">>, <<"D","e","c">> >>

IsDigits(s) == \A i \in DOMAIN s : \E d \in DOMAIN Digits : Digits[d] = s[i]

\* float(parts[4]) for a text of digits; anything else raises (Bad).
Bad == -1

RECURSIVE DigitsValue(_, _)
DigitsValue(s, acc) ==
    IF s = <<>> THEN acc
    ELSE DigitsValue(Tail(s),
            10 * acc + (CHOOSE d \in DOMAIN Digits : Digits[d] = Head(s)) - 1)

ParseFloat(s) == IF s # <<>> /\ IsDigits(s) THEN DigitsValue(s, 0) ELSE Bad

\* datetime.strptime(date_str, "%d-%b-%Y").strftime("%Y-%m-%d") for a text
\* dd-Mon-yyyy; None when strptime raises.
ParseNavDate(s) ==
    IF /\ Len(s) = 11 /\ s[3] = "-" /\ s[7] = "-"
       /\ IsDigits(SubSeq(s, 1, 2)) /\ IsDigits(SubSeq(s, 8, 11))
       /\ DigitsValue(SubSeq(s, 1, 2), 0) \in 1..31
       /\ \E m \in DOMAIN Months :
              Months[m] = <<s[4], s[5], s[6]>>
    THEN LET m == CHOOSE m \in DOMAIN Months :
                      Months[m] = <<s[4], s[5], s[6]>>
         IN SubSeq(s, 8, 11) \o <<"-">>
            \o <<Digits[(m \div 10) + 1], Digits[(m % 10) + 1]>>
            \o <<"-">> \o SubSeq(s, 1, 2)
    ELSE None

\* The lines of the price list that become updates: at least 6 fields, a
\* watched code, a NAV float() accepts and a date strptime accepts.
RECURSIVE CollectUpdates(_, _)
CollectUpdates(lines, radar_codes) ==
    IF lines = <<>> THEN <<>>
    ELSE LET parts == Head(lines)
             rest  == CollectUpdates(Tail(lines), radar_codes)
         IN IF Len(parts) >= 6 /\ parts[1] \in radar_codes
               /\ ParseFloat(parts[5]) # Bad /\ ParseNavDate(Strip(parts[6])) # None
            THEN <<[scheme_code |-> parts[1], scheme_name |-> parts[4],
                    isin1 |-> parts[2], isin2 |-> parts[3],
                    current_nav |-> ParseFloat(parts[5]),
                    last_nav_date |-> ParseNavDate(Strip(parts[6]))]>> \o rest
            ELSE rest

\* watched_schemes.update({...}).eq('scheme_code', u['scheme_code'])
UpdateRadar(watched, u) ==
    [i \in DOMAIN watched |->
        IF watched[i].scheme_code = u.scheme_code
        THEN [watched[i] EXCEPT !.current_nav = u.current_nav,
                                !.last_nav_date = u.last_nav_date,
                                !.isin1 = u.isin1, !.isin2 = u.isin2]
        ELSE watched[i]]

\* The cascade: every snapshot row whose scheme_code is the update's gets
\* current_value = float(total_units) * current_nav and the new nav_date.
CascadeSnapshots(positions, u) ==
    [k \in DOMAIN positions |->
        IF positions[k].scheme_code = u.scheme_code
        THEN [positions[k] EXCEPT !.current_value = positions[k].total_units * u.current_nav,
                                  !.nav_date = u.last_nav_date]
        ELSE positions[k]]

RECURSIVE ApplyUpdates(_, _)
ApplyUpdates(db, updates) ==
    IF updates = <<>> THEN db
    ELSE ApplyUpdates([db EXCEPT !.watched = UpdateRadar(@, Head(updates)),
                                 !.positions = CascadeSnapshots(@, Head(updates))],
                      Tail(updates))

\* run_engine() over the store db with the downloaded price list feed.
run_engine(db, feed) ==
    LET radar_codes == {db.watched[i].scheme_code : i \in DOMAIN db.watched}
    IN IF radar_codes = {} THEN db
       ELSE ApplyUpdates(db, CollectUpdates(feed, radar_codes))

----------------------------------------------------------------------------
(* The texts and rows the runs are drawn from *)

PAN1 == <<"A","B","C","D","E","1","2","3","4","F">>
JOHN_DOE == <<"J","O","H","N"," ","D","O","E">>
john_doe == <<"j","o","h","n"," ","d","o","e">>
FundA == <<"F","u","n","d"," ","A">>
FundB == <<"F","u","n","d"," ","B">>
Code101 == <<"1","0","1">>
Code999 == <<"9","9","9">>
Isin == <<"I","N","F","1">>

\* A unit amount: whole units and 1e-5 units.
Units(whole, frac) == whole * 100000 + frac

\* The rows process_rta_files hands over. An identity row carries pan and
\* name and no scheme; a ledger row carries name, scheme, units and action
\* and no pan (no layout fills both pan and scheme).
Rows == <<
    [pan |-> PAN1, name |-> JOHN_DOE, email |-> None, phone |-> None,
     scheme |-> None, units |-> 0, action |-> "None"],
    [pan |-> None, name |-> john_doe, email |-> None, phone |-> None,
     scheme |-> FundA, units |-> Units(10, 0), action |-> "ADD"],
    [pan |-> None, name |-> john_doe, email |-> None, phone |-> None,
     scheme |-> FundA, units |-> Units(4, 16), action |-> "DEDUCT"],
    [pan |-> None, name |-> john_doe, email |-> None, phone |-> None,
     scheme |-> FundB, units |-> Units(5, 0), action |-> "None"] >>

\* t['source_row'] = idx + 2
WithSourceRow(r, idx) ==
    [pan |-> r.pan, name |-> r.name, email |-> r.email, phone |-> r.phone,
     scheme |-> r.scheme, units |-> r.units, action |-> r.action,
     source_row |-> idx + 2]

\* The watched schemes the store starts with: Fund A is watched, Fund B is not.
WatchedInit == <<[scheme_code |-> Code101, scheme_name |-> FundA, nav |-> 30,
                  current_nav |-> 30, last_nav_date |-> None,
                  isin1 |-> None, isin2 |-> None]>>

\* Price lists (each line split at ';'): a watched code with a new NAV,
\* an unwatched code, a line with a bad date, a short line.
Feeds == {
    << <<Code101, Isin, None, FundA, <<"3","1">>,
         <<"0","4","-","N","o","v","-","2","0","2","6">> >> >>,
    << <<Code999, Isin, None, FundB, <<"1","2">>,
         <<"0","4","-","N","o","v","-","2","0","2","6">> >>,
       <<Code101, Isin, None, FundA, <<"3","1">>, <<"N",".","A",".">> >>,
       <<Code101, Isin, None, FundA>> >> }

\* Rows the staging log may hold in all: bounds the runs of a behaviour.
MaxLog == 3

----------------------------------------------------------------------------
(* src/app.py: process_rta_files                                            *)
(*                                                                         *)
(* An uploaded file is a record                                            *)
(*   name       the file name                                              *)
(*   password   the password a zip member is encrypted with, None if none  *)
(*   has_csv    a zip archive lists a member ending in .csv                *)
(*   readable   the archive opens and pd.read_csv parses the content       *)
(*   columns    the header row as read                                     *)
(*   rows       the data rows, a cell per column                           *)
(* A cell is NaN (an empty field), a text or a number; Missing is what     *)
(* row.get returns for a column the file does not have.                    *)

NaN == [t |-> "nan"]
Missing == [t |-> "none"]
Txt(s) == [t |-> "str", s |-> s]
Num(n) == [t |-> "num", n |-> n]

IsUpper(c) == \E i \in DOMAIN Uppers : Uppers[i] = c
IsLetter(c) == IsUpper(c) \/ \E i \in DOMAIN Lowers : Lowers[i] = c
IsDigit(c) == \E i \in DOMAIN Digits : Digits[i] = c

\* pd.isna(val)
IsNa(val) == val.t \in {"nan", "none"}

\* str(n) for a natural number
RECURSIVE DigitsOf(_)
DigitsOf(n) ==
    IF n < 10 THEN <<Digits[n + 1]>>
    ELSE DigitsOf(n \div 10) \o <<Digits[(n % 10) + 1]>>

\* The decimals of a float counted in 1e-5: five digits, trailing zeros
\* dropped, one digit at least.
RECURSIVE DropZeros(_)
DropZeros(s) ==
    IF Len(s) > 1 /\ s[Len(s)] = "0" THEN DropZeros(SubSeq(s, 1, Len(s) - 1)) ELSE s

FracDigits(f) ==
    LET d == DigitsOf(f)
    IN DropZeros([i \in 1..(5 - Len(d)) |-> "0"] \o d)

\* str(val)
Str(val) ==
    IF val.t = "nan" THEN <<"n","a","n">>
    ELSE IF val.t = "none" THEN <<"N","o","n","e">>
    ELSE IF val.t = "str" THEN val.s
    ELSE LET a == IF val.n < 0 THEN -val.n ELSE val.n
         IN (IF val.n < 0 THEN <<"-">> ELSE <<>>)
            \o DigitsOf(a \div 100000) \o <<".">> \o FracDigits(a % 100000)

\* clean_str(val); None and the empty text are both <<>>, and clean_str
\* returns None where the text is empty.
clean_str(val) ==
    IF IsNa(val) \/ Lower(Str(val)) = <<"n","a","n">> THEN None
    ELSE Strip(RemoveChar(RemoveChar(Str(val), "'"), "\""))

\* float(s) for a text: digits, or digits '.' up to five digits, blanks
\* around them allowed; Bad (ValueError) for every other text of the files
\* modelled here.
FloatOfText(s) ==
    LET x    == Strip(s)
        dots == {i \in DOMAIN x : x[i] = "."}
    IN IF x # <<>> /\ IsDigits(x) THEN DigitsValue(x, 0) * 100000
       ELSE IF Cardinality(dots) = 1
       THEN LET d == CHOOSE i \in dots : TRUE
                w == SubSeq(x, 1, d - 1)
                f == SubSeq(x, d + 1, Len(x))
            IN IF /\ w # <<>> /\ IsDigits(w) /\ IsDigits(f) /\ Len(f) <= 5
               THEN DigitsValue(w, 0) * 100000
                    + DigitsValue(f \o [i \in 1..(5 - Len(f)) |-> "0"], 0)
               ELSE Bad
       ELSE Bad

\* clean_float(val)
clean_float(val) ==
    IF IsNa(val) THEN 0
    ELSE IF val.t = "num" THEN val.n
    ELSE IF FloatOfText(val.s) = Bad THEN 0 ELSE FloatOfText(val.s)

\* val or "": None, 0.0 and the empty text are falsy, NaN is not.
OrEmpty(val) ==
    IF \/ val.t = "none"
       \/ (val.t = "num" /\ val.n = 0)
       \/ (val.t = "str" /\ val.s = <<>>)
    THEN Txt(<<>>) ELSE val

\* str(c).strip().replace("'", "").replace('"', "")
NormalizeColumn(c) == RemoveChar(RemoveChar(Strip(c), "'"), "\"")

\* row.get(col), the row indexed by the normalized columns
RowGet(columns, row, col) ==
    LET hits == {i \in DOMAIN columns : NormalizeColumn(columns[i]) = col}
    IN IF hits = {} THEN Missing
       ELSE row[CHOOSE i \in hits : \A j \in hits : i <= j]

\* passwords.split(sep)
RECURSIVE Split(_, _)
Split(s, sep) ==
    LET hits == {i \in DOMAIN s : s[i] = sep}
    IN IF hits = {} THEN <<s>>
       ELSE LET i == CHOOSE i \in hits : \A j \in hits : i <= j
            IN <<SubSeq(s, 1, i - 1)>> \o Split(SubSeq(s, i + 1, Len(s)), sep)

\* pwd_list = [p.strip() for p in passwords.split(",")] if passwords else [None]
PwdList(passwords) ==
    IF passwords = None THEN <<None>>
    ELSE LET parts == Split(passwords, ",")
         IN [i \in DOMAIN parts |-> Strip(parts[i])]

\* The zip loop and pd.read_csv: "ok" when a DataFrame was read, "locked"
\* when the loop ends without one (no .csv member, or z.open raised
\* RuntimeError for every password), "error" when another exception reaches
\* the handler of line 137. A member that is not encrypted opens whatever
\* password is set.
ReadFile(file, pwd_list) ==
    IF EndsWith(file.name, <<".","z","i","p">>)
    THEN IF ~file.readable THEN "error"
         ELSE IF ~file.has_csv THEN "locked"
         ELSE IF \/ file.password = None
                 \/ \E i \in DOMAIN pwd_list :
                       pwd_list[i] # None /\ pwd_list[i] = file.password
         THEN "ok" ELSE "locked"
    ELSE IF file.readable THEN "ok" ELSE "error"

\* The layout flags, first match of the if/elif chain of lines 101-123.
LayoutOf(name) ==
    LET fname == Upper(name)
    IN IF Contains(fname, <<"R","9">>) \/ Contains(fname, <<"I","D","E","N","T","I","T","Y">>) THEN "r9"
       ELSE IF Contains(fname, <<"R","3","3">>) \/ Contains(fname, <<"T","R","X","N">>) THEN "r33"
       ELSE IF StartsWith(fname, <<"M","F","S","D","2","1","1">>) THEN "kfin_m"
       ELSE IF StartsWith(fname, <<"M","F","S","D","2","0","1">>) THEN "kfin_t"
       ELSE "none"

\* " ".join([str(v) for v in row.values])
RECURSIVE RowText(_)
RowText(row) ==
    IF row = <<>> THEN <<>>
    ELSE IF Len(row) = 1 THEN Str(row[1])
    ELSE Str(row[1]) \o <<" ">> \o RowText(Tail(row))

\* re.search(r"([A-Z]{5}[0-9]{4}[A-Z]{1})", s): the first match, or None
PanMatch(s) ==
    LET hits == {i \in 1..(Len(s) - 9) :
                    /\ \A j \in 0..4 : IsUpper(s[i + j])
                    /\ \A j \in 5..8 : IsDigit(s[i + j])
                    /\ IsUpper(s[i + 9])}
    IN IF hits = {} THEN None
       ELSE LET i == CHOOSE i \in hits : \A j \in hits : i <= j
            IN SubSeq(s, i, i + 9)

\* [a-zA-Z0-9._%+-] and [a-zA-Z0-9.-] over the characters of the model
LocalChar(c) == IsLetter(c) \/ IsDigit(c) \/ c \in {".", "_", "-"}
DomainChar(c) == IsLetter(c) \/ IsDigit(c) \/ c \in {".", "-"}

\* The end of the longest run of [a-zA-Z0-9.-] that starts at i.
DomainRunEnd(s, i) ==
    CHOOSE e \in (i - 1)..Len(s) :
        /\ \A j \in i..e : DomainChar(s[j])
        /\ e = Len(s) \/ ~DomainChar(s[e + 1])

\* The end of the longest run of [a-zA-Z] that starts at i.
LetterRunEnd(s, i) ==
    CHOOSE e \in (i - 1)..Len(s) :
        /\ \A j \in i..e : IsLetter(s[j])
        /\ e = Len(s) \/ ~IsLetter(s[e + 1])

\* The start of the longest run of [a-zA-Z0-9._%+-] that ends at i.
LocalRunStart(s, i) ==
    CHOOSE b \in 1..(i + 1) :
        /\ \A j \in b..i : LocalChar(s[j])
        /\ b = 1 \/ ~LocalChar(s[b - 1])

\* The last dot of the domain run after the '@' at a that two letters follow,
\* 0 when there is none (the greedy domain gives characters back to there).
TldDot(s, a) ==
    LET e  == DomainRunEnd(s, a + 1)
        ds == {d \in (a + 2)..(e - 2) :
                  s[d] = "." /\ IsLetter(s[d + 1]) /\ IsLetter(s[d + 2])}
    IN IF ds = {} THEN 0 ELSE CHOOSE d \in ds : \A x \in ds : x <= d

\* re.search(r"([a-zA-Z0-9._%+-]+@[a-zA-Z0-9.-]+\.[a-zA-Z]{2,})", s)
EmailMatch(s) ==
    LET ats == {a \in 2..Len(s) :
                   s[a] = "@" /\ LocalChar(s[a - 1]) /\ TldDot(s, a) # 0}
    IN IF ats = {} THEN None
       ELSE LET a == CHOOSE a \in ats : \A x \in ats : a <= x
            IN SubSeq(s, LocalRunStart(s, a - 1),
                      LetterRunEnd(s, TldDot(s, a) + 1))

\* any(x in nature for x in keywords)
AnyIn(nature, keywords) == \E x \in keywords : Contains(nature, x)

\* The keyword lists of lines 114-115 and of lines 130-131.
R33Add == {<<"P","U","R","C","H","A","S","E">>, <<"S","Y","S","T","E","M","A","T","I","C">>, <<"S","W","I","T","C","H"," ","I","N">>, <<"R","E","I","N","V","E","S","T","M","E","N","T">>}
R33Deduct == {<<"R","E","D","E","M","P","T","I","O","N">>, <<"T","R","A","N","S","F","E","R">>, <<"S","W","I","T","C","H"," ","O","U","T">>}
KfinAdd == {<<"P","U","R","C","H","A","S","E">>, <<"S"," ","T"," ","P"," ","I","N">>, <<"S","W","I","T","C","H"," ","I","N">>}
KfinDeduct == {<<"S","H","I","F","T"," ","O","U","T">>, <<"R","E","D","E","M","P","T","I","O","N">>, <<"S","W","I","T","C","H"," ","O","U","T">>}

ActionOf(nature, add, deduct) ==
    IF AnyIn(nature, add) THEN "ADD"
    ELSE IF AnyIn(nature, deduct) THEN "DEDUCT"
    ELSE "None"

\* t = {'pan': None, ..., 'units': 0.0, 'action': None, 'source_row': idx + 2}
NewT(idx) ==
    [pan |-> None, name |-> None, email |-> None, phone |-> None,
     scheme |-> None, units |-> 0, action |-> "None", source_row |-> idx + 2]

\* "pledging" in desc or "rej." in desc
IsExcluded(desc) ==
    Contains(desc, <<"p","l","e","d","g","i","n","g">>) \/ Contains(desc, <<"r","e","j",".">>)

\* One pass of the loop body of lines 97-135 over a row. The outcome is
\* "kept" (appended to all_data), "excluded" (the continue of line 125),
\* "raised" (.upper() or .lower() of None, caught by line 135) or "empty"
\* (neither name nor pan).
Outcome(t) == [outcome |-> IF t.name # None \/ t.pan # None THEN "kept" ELSE "empty",
               t |-> t]

ExtractR9(columns, row, idx) ==
    LET row_text == RowText(row)
    IN Outcome([NewT(idx) EXCEPT !.name = clean_str(RowGet(columns, row, <<"I","N","V","_","N","A","M","E">>)),
                                 !.pan = PanMatch(row_text),
                                 !.email = EmailMatch(row_text)])

ExtractR33(columns, row, idx) ==
    LET flag == clean_str(OrEmpty(RowGet(columns, row, <<"T","R","X","N","_","T","Y","P","E","_","F","L","A","G">>)))
    IN IF flag = None THEN [outcome |-> "raised", t |-> NewT(idx)]
       ELSE Outcome([NewT(idx) EXCEPT
                !.scheme = clean_str(RowGet(columns, row, <<"S","C","H","E","M","E">>)),
                !.name = clean_str(RowGet(columns, row, <<"I","N","V","N","A","M","E">>)),
                !.units = clean_float(RowGet(columns, row, <<"U","N","I","T","S">>)),
                !.action = ActionOf(Upper(flag), R33Add, R33Deduct)])

ExtractKfinM(columns, row, idx) ==
    Outcome([NewT(idx) EXCEPT
                !.name = clean_str(RowGet(columns, row, <<"I","n","v","e","s","t","o","r"," ","N","a","m","e">>)),
                !.email = clean_str(RowGet(columns, row, <<"E","m","a","i","l"," ","I","D">>)),
                !.pan = clean_str(RowGet(columns, row, <<"P","A","N"," ","N","u","m","b","e","r">>)),
                !.phone = clean_str(RowGet(columns, row, <<"M","o","b","i","l","e"," ","N","u","m","b","e","r">>))])

ExtractKfinT(columns, row, idx) ==
    LET raw == clean_str(OrEmpty(RowGet(columns, row, <<"T","r","a","n","s","a","c","t","i","o","n"," ","D","e","s","c","r","i","p","t","i","o","n">>)))
    IN IF raw = None THEN [outcome |-> "raised", t |-> NewT(idx)]
       ELSE IF IsExcluded(Lower(raw)) THEN [outcome |-> "excluded", t |-> NewT(idx)]
       ELSE Outcome([NewT(idx) EXCEPT
                !.name = clean_str(RowGet(columns, row, <<"I","n","v","e","s","t","o","r"," ","N","a","m","e">>)),
                !.scheme = clean_str(RowGet(columns, row, <<"F","u","n","d"," ","D","e","s","c","r","i","p","t","i","o","n">>)),
                !.units = clean_float(RowGet(columns, row, <<"U","n","i","t","s">>)),
                !.action = ActionOf(Upper(Lower(raw)), KfinAdd, KfinDeduct)])

ExtractRow(layout, columns, row, idx) ==
    IF layout = "r9" THEN ExtractR9(columns, row, idx)
    ELSE IF layout = "r33" THEN ExtractR33(columns, row, idx)
    ELSE IF layout = "kfin_m" THEN ExtractKfinM(columns, row, idx)
    ELSE IF layout = "kfin_t" THEN ExtractKfinT(columns, row, idx)
    ELSE Outcome(NewT(idx))

\* The rows of one uploaded file, each with what the loop made of it; none
\* when no DataFrame was read.
ExtractFile(file, fi, pwd_list) ==
    IF ReadFile(file, pwd_list) # "ok" THEN <<>>
    ELSE [i \in DOMAIN file.rows |->
            LET o == ExtractRow(LayoutOf(file.name), file.columns, file.rows[i], i - 1)
            IN [file |-> fi, idx |-> i - 1, layout |-> LayoutOf(file.name),
                outcome |-> o.outcome, t |-> o.t]]

RECURSIVE ExtractFiles(_, _, _)
ExtractFiles(uploaded_files, fi, pwd_list) ==
    IF fi > Len(uploaded_files) THEN <<>>
    ELSE ExtractFile(uploaded_files[fi], fi, pwd_list)
         \o ExtractFiles(uploaded_files, fi + 1, pwd_list)

\* "APR2024" in name.upper() or "LIFETIME" in name.upper()
IsLifetimeName(name) ==
    Contains(Upper(name), <<"A","P","R","2","0","2","4">>) \/ Contains(Upper(name), <<"L","I","F","E","T","I","M","E">>)

\* A parser that sets the reset flag after a file was read instead of
\* before it is opened.
process_rta_files_FlagAfterRead(uploaded_files, passwords) ==
    LET rows == ExtractFiles(uploaded_files, 1, PwdList(passwords))
        kept == SelectSeq(rows, LAMBDA e : e.outcome = "kept")
    IN [all_data |-> [i \in DOMAIN kept |-> kept[i].t],
        is_lifetime_reset |-> \E i \in DOMAIN uploaded_files :
                                 /\ IsLifetimeName(uploaded_files[i].name)
                                 /\ ReadFile(uploaded_files[i], PwdList(passwords)) = "ok",
        extracted |-> rows]

\* process_rta_files(uploaded_files, passwords): the returned pair, and with
\* it the account of every row read (extracted).
process_rta_files(uploaded_files, passwords) ==
    LET rows == ExtractFiles(uploaded_files, 1, PwdList(passwords))
        kept == SelectSeq(rows, LAMBDA e : e.outcome = "kept")
    IN [all_data |-> [i \in DOMAIN kept |-> kept[i].t],
        is_lifetime_reset |-> \E i \in DOMAIN uploaded_files :
                                 IsLifetimeName(uploaded_files[i].name),
        extracted |-> rows]

----------------------------------------------------------------------------
(* The files of the uploads modelled *)

LedgerColumns == <<<<"I","n","v","e","s","t","o","r"," ","N","a","m","e">>, <<"F","u","n","d"," ","D","e","s","c","r","i","p","t","i","o","n">>, <<"U","n","i","t","s">>,
                   <<"T","r","a","n","s","a","c","t","i","o","n"," ","D","e","s","c","r","i","p","t","i","o","n">>>>
QuotedLedgerColumns == <<<<"'","I","n","v","e","s","t","o","r"," ","N","a","m","e","'">>, <<" ","'","F","u","n","d"," ","D","e","s","c","r","i","p","t","i","o","n","'">>, <<"'","U","n","i","t","s","'">>,
                         <<"'","T","r","a","n","s","a","c","t","i","o","n"," ","D","e","s","c","r","i","p","t","i","o","n","'">>>>
R33Columns == <<<<"S","C","H","E","M","E">>, <<"I","N","V","N","A","M","E">>, <<"U","N","I","T","S">>, <<"T","R","X","N","_","T","Y","P","E","_","F","L","A","G">>>>

File(name, password, has_csv, readable, columns, rows) ==
    [name |-> name, password |-> password, has_csv |-> has_csv,
     readable |-> readable, columns |-> columns, rows |-> rows]

\* What an upload may hold: ledger files of both layouts with purchase,
\* redemption, pledging, rejected and unknown descriptions, an empty
\* description, an empty name and units that are no number; identity files
\* of both layouts; a file of
\* no known layout; a zip the password list opens and one it does not; a
\* file pandas cannot parse.
FileCatalogue == <<
    File(<<"M","F","S","D","2","0","1",".","c","s","v">>, None, FALSE, TRUE, LedgerColumns,
         << <<Txt(john_doe), Txt(FundA), Num(Units(7, 0)),
              Txt(<<"U","n","i","t","s"," ","P","l","e","d","g","i","n","g"," ","c","o","n","f","i","r","m","a","t","i","o","n">>)>>,
            <<Txt(john_doe), Txt(FundA), Num(Units(10, 0)), Txt(<<"P","u","r","c","h","a","s","e">>)>> >>),
    File(<<"m","f","s","d","2","0","1","_","A","p","r","2","0","2","4",".","c","s","v">>, None, FALSE, TRUE, LedgerColumns,
         << <<Txt(john_doe), Txt(FundA), Num(Units(3, 0)), Txt(<<"R","e","j","."," ","R","e","d","e","m","p","t","i","o","n">>)>>,
            <<Txt(john_doe), Txt(FundA), Num(Units(4, 0)),
              Txt(<<"S","y","s","t","e","m","a","t","i","c"," ","I","n","v","e","s","t","m","e","n","t">>)>>,
            <<Txt(john_doe), Txt(FundA), Num(Units(2, 0)),
              Txt(<<"L","a","t","e","r","a","l"," ","S","h","i","f","t"," ","O","u","t">>)>> >>),
    File(<<"M","F","S","D","2","0","1","_","B",".","c","s","v">>, None, FALSE, TRUE, QuotedLedgerColumns,
         << <<Txt(john_doe), Txt(FundB), Num(Units(5, 0)), NaN>>,
            <<NaN, Txt(FundB), Num(Units(5, 0)), Txt(<<"S","w","i","t","c","h"," ","I","n">>)>>,
            <<Txt(john_doe), Txt(FundA), Txt(<<" ","1",".","5"," ">>), Txt(<<"W","i","t","h","d","r","a","w","a","l">>)>>,
            <<Txt(john_doe), Txt(FundB), Txt(<<"N",".","A",".">>), Txt(<<"P","u","r","c","h","a","s","e">>)>> >>),
    File(<<"R","3","3",".","c","s","v">>, None, FALSE, TRUE, R33Columns,
         << <<Txt(FundA), Txt(john_doe), Num(Units(7, 0)),
              Txt(<<"U","n","i","t","s"," ","P","l","e","d","g","i","n","g"," ","c","o","n","f","i","r","m","a","t","i","o","n">>)>>,
            <<Txt(FundA), Txt(john_doe), Num(Units(4, 0)),
              Txt(<<"S","y","s","t","e","m","a","t","i","c"," ","I","n","v","e","s","t","m","e","n","t">>)>>,
            <<Txt(FundA), Txt(john_doe), Num(Units(1, 0)), NaN>> >>),
    File(<<"T","R","X","N","_","L","I","F","E","T","I","M","E",".","z","i","p">>, <<"p","w">>, TRUE, TRUE, R33Columns,
         << <<Txt(FundA), Txt(john_doe), Num(Units(2, 0)), Txt(<<"T","r","a","n","s","f","e","r"," ","O","u","t">>)>>,
            <<Txt(FundA), Txt(john_doe), Num(Units(3, 0)),
              Txt(<<"R","e","j","."," ","P","u","r","c","h","a","s","e">>)>> >>),
    File(<<"R","9","_","I","D","E","N","T","I","T","Y",".","c","s","v">>, None, FALSE, TRUE, <<<<"I","N","V","_","N","A","M","E">>, <<"A","D","D","R","E","S","S">>>>,
         << <<Txt(JOHN_DOE), Txt(<<"P","A","N"," ","A","B","C","D","E","1","2","3","4","F"," ","m","a","i","l"," ","j","d","@","x",".","i","n",".">>)>>,
            <<NaN, Txt(<<"n","o"," ","p","a","n"," ","h","e","r","e">>)>> >>),
    File(<<"M","F","S","D","2","1","1",".","c","s","v">>, None, FALSE, TRUE,
         <<<<"I","n","v","e","s","t","o","r"," ","N","a","m","e">>, <<"E","m","a","i","l"," ","I","D">>, <<"P","A","N"," ","N","u","m","b","e","r">>, <<"M","o","b","i","l","e"," ","N","u","m","b","e","r">>>>,
         << <<Txt(JOHN_DOE), Txt(<<"j","d","@","x",".","i","n">>), Txt(PAN1), Txt(<<"9","8","7","6","5">>)>> >>),
    File(<<"n","o","t","e","s",".","c","s","v">>, None, FALSE, TRUE, <<<<"I","n","v","e","s","t","o","r"," ","N","a","m","e">>>>,
         << <<Txt(john_doe)>> >>),
    File(<<"R","3","3","_","A","P","R","2","0","2","4",".","z","i","p">>, <<"z","z">>, TRUE, TRUE, R33Columns,
         << <<Txt(FundA), Txt(john_doe), Num(Units(9, 0)), Txt(<<"P","u","r","c","h","a","s","e">>)>> >>),
    File(<<"M","F","S","D","2","0","1","_","b","r","o","k","e","n",".","c","s","v">>, None, FALSE, FALSE, <<>>, <<>>) >>

\* What the password field may hold: nothing, or a list that opens the
\* first zip of the catalogue.
PasswordInputs == {None, <<"x",","," ","p","w">>}

\* Files an upload may hold.
MaxFiles == 2

----------------------------------------------------------------------------
(* State *)

VARIABLES
    clients,        \* table clients
    positions,      \* table portfolio_snapshot
    staging,        \* table staging_clients
    watched,        \* table watched_schemes
    now,            \* datetime.now(), a logical clock
    lastOp,         \* the operation that ran last
    data,           \* sync_to_db: argument data of the last run
    is_reset_mode,  \* sync_to_db: argument is_reset_mode of the last run
    df,             \* sync_to_db: df after fill_pan
    aggregated,     \* sync_to_db: aggregated
    nav_map,        \* sync_to_db: nav_map
    count,          \* sync_to_db: first component returned
    errors,         \* sync_to_db: second component returned
    pre,            \* clients and positions as the last run found them
    prev,           \* the run before the last run: its arguments and values
    sess,           \* concurrent sessions inside the merge loop of sync_to_db
    files,          \* the UI: the files of the uploader
    pwd_input,      \* the UI: the text of the password field
    all_data,       \* process_rta_files: first component returned
    is_lifetime_reset,  \* process_rta_files: second component returned
    extracted,      \* process_rta_files: what became of every row read
    failed          \* sync_to_db: the store calls of the last run that raised

vars == <<clients, positions, staging, watched, now, lastOp, data, is_reset_mode,
          df, aggregated, nav_map, count, errors, pre, prev, sess,
          files, pwd_input, all_data, is_lifetime_reset, extracted, failed>>

\* The variables of the upload form and of process_rta_files.
uploadVars == <<files, pwd_input, all_data, is_lifetime_reset, extracted>>

\* The upload form before anything was uploaded.
NoUpload ==
    /\ files = <<>>
    /\ pwd_input = None
    /\ all_data = <<>>
    /\ is_lifetime_reset = FALSE
    /\ extracted = <<>>

NoRun == [ran |-> FALSE]

Init ==
    /\ clients = <<>>
    /\ positions = [k \in {} |-> None]
    /\ staging = <<>>
    /\ watched = WatchedInit
    /\ now = 0
    /\ lastOp = "init"
    /\ data = <<>>
    /\ is_reset_mode = FALSE
    /\ df = <<>>
    /\ aggregated = EmptyAgg
    /\ nav_map = EmptyMap
    /\ count = 0
    /\ errors = <<>>
    /\ pre = [clients |-> <<>>, positions |-> [k \in {} |-> None]]
    /\ prev = NoRun
    /\ sess = <<>>
    /\ NoUpload
    /\ failed = NoFails

Store == [clients |-> clients, positions |-> positions, staging |-> staging,
          watched |-> watched]

\* One call sync_to_db(batch, reset) against the store, the store calls
\* named by fails raising.
SyncWith(batch, reset, fails) ==
    LET r == sync_to_db(Store, batch, reset, now + 1, fails)
    IN /\ failed' = fails
       /\ clients' = r.clients
       /\ positions' = r.positions
       /\ staging' = r.staging
       /\ now' = now + 1
       /\ lastOp' = "sync"
       /\ data' = batch
       /\ is_reset_mode' = reset
       /\ df' = r.df
       /\ aggregated' = r.aggregated
       /\ nav_map' = r.nav_map
       /\ count' = r.count
       /\ errors' = r.errors
       /\ pre' = [clients |-> clients, positions |-> positions]
       /\ prev' = IF lastOp = "sync"
                  THEN [ran |-> TRUE, data |-> data, is_reset_mode |-> is_reset_mode,
                        aggregated |-> aggregated, pre |-> pre]
                  ELSE NoRun
       /\ UNCHANGED watched

\* One call sync_to_db(batch, reset) against the store, every store call
\* succeeding.
Sync(batch, reset) == SyncWith(batch, reset, NoFails)

SyncToDb ==
    /\ \E n \in 1..(MaxLog - Len(staging)) :
         \E pick \in [1..n -> DOMAIN Rows] :
           \E reset \in BOOLEAN :
             Sync([i \in 1..n |-> WithSourceRow(Rows[pick[i]], i - 1)], reset)
    /\ UNCHANGED <<sess, uploadVars>>

\* One run of daily_nav.py.
RunEngine ==
    \E feed \in Feeds :
      LET r == run_engine(Store, feed)
      IN /\ watched' = r.watched
         /\ positions' = r.positions
         /\ lastOp' = "engine"
         /\ UNCHANGED <<clients, staging, now, data, is_reset_mode, df, aggregated,
                        nav_map, count, errors, pre, prev, sess, uploadVars,
                        failed>>

Next == SyncToDb \/ RunEngine

Spec == Init /\ [][Next]_vars

----------------------------------------------------------------------------
(* Properties of sync_to_db and run_engine, checked under Spec *)

RECURSIVE SumOf(_)
SumOf(xs) == IF xs = <<>> THEN 0 ELSE Head(xs) + SumOf(Tail(xs))

\* The rows of df that fall under key k.
RowsOfKey(k) == SelectSeq(df, LAMBDA r : r.pan = k[1] /\ r.scheme = k[2])

\* The contribution the aggregation rule gives a row: +units for ADD,
\* -units for DEDUCT, 0 for an unknown action.
RuleContribution(r) ==
    IF r.action = "ADD" THEN r.units
    ELSE IF r.action = "DEDUCT" THEN -r.units
    ELSE 0

\* The stored total of a key, 0 when no row is stored.
StoredUnits(pos, k) == IF k \in DOMAIN pos THEN pos[k].total_units ELSE 0

\* A table of positions without its updated_at column.
Balances(pos) ==
    [k \in DOMAIN pos |-> [total_units |-> pos[k].total_units, nav |-> pos[k].nav,
                           current_value |-> pos[k].current_value]]

\* C1: for every batch and every (identifier, scheme) key, signedUnits is the
\* sum of the units of the key's ADD rows minus the sum of the units of its
\* DEDUCT rows; a row with an unknown action contributes 0.
C1_UnknownContributesZero ==
    \A k \in DOMAIN aggregated :
        aggregated[k] =
            SumOf([i \in DOMAIN RowsOfKey(k) |-> RuleContribution(RowsOfKey(k)[i])])

\* C2: a row without identifier whose name matches (case and blanks aside)
\* the name of a batch row that carries identifier and name leaves
\* resolution with the identifier of such a row.
C2_BackfillFromBatch ==
    \A i \in DOMAIN data, j \in DOMAIN data :
        ( /\ data[i].pan # None /\ data[i].name # None
          /\ data[j].pan = None /\ data[j].name # None
          /\ Upper(Strip(data[j].name)) = Upper(Strip(data[i].name)) )
        => \E h \in DOMAIN data :
              /\ data[h].pan # None /\ data[h].name # None
              /\ Upper(Strip(data[h].name)) = Upper(Strip(data[j].name))
              /\ df[j].pan = data[h].pan

\* C3: right after a reset run, running sync_to_db once more on the same
\* batch (same prices, every store call succeeding) leaves the positions as
\* they are (updated_at aside).
C3_ResetIdempotent ==
    (lastOp = "sync" /\ is_reset_mode)
    => Balances(sync_to_db(Store, data, TRUE, now + 1, NoFails).positions)
         = Balances(positions)

\* C4: after a reset run every identifier of the batch holds exactly the keys
\* of the batch's aggregated mapping, each with total_units = round(delta, 4),
\* whatever was stored before.
C4_ResetRebuilds ==
    (lastOp = "sync" /\ is_reset_mode)
    => \A p \in {df[i].pan : i \in DOMAIN df} \ {None} :
          /\ {k \in DOMAIN positions : k[1] = p} = {k \in DOMAIN aggregated : k[1] = p}
          /\ \A k \in DOMAIN aggregated :
                k[1] = p => positions[k].total_units = Round4(aggregated[k])

\* C4 witness: a reset run whose net delta is negative replaced a positive
\* stored balance by round(delta, 4).
C4_Witness ==
    /\ lastOp = "sync" /\ is_reset_mode
    /\ \E k \in DOMAIN aggregated :
          /\ k \in DOMAIN pre.positions
          /\ pre.positions[k].total_units > 0
          /\ aggregated[k] < 0
          /\ positions[k].total_units = Round4(aggregated[k])

C6_ValuationInvariant ==
    \A k \in DOMAIN positions :
        positions[k].current_value = Round2(positions[k].total_units * positions[k].nav)

\* The store the last run found.
PreStore == [clients |-> pre.clients, positions |-> pre.positions,
             staging |-> <<>>, watched |-> watched]

----------------------------------------------------------------------------
(* Two browser sessions inside the merge loop of sync_to_db (src/app.py     *)
(* lines 208-238) at the same time. Streamlit runs every session's script   *)
(* in a thread of its own against the one store; the select of line 217    *)
(* and the upsert of line 228 are two store calls, and nothing in the code  *)
(* holds a lock or a transaction across them.                              *)

Sessions == {1, 2}

Key1A == <<PAN1, FundA>>
Key1B == <<PAN1, FundB>>

\* Net changes of a key in a session's aggregated mapping (whole units).
ConcDeltas == {Units(10, 0), -Units(4, 0)}

\* The aggregated mappings a session enters the loop with.
ConcAggregates ==
    UNION {[ks -> ConcDeltas] : ks \in {{Key1A}, {Key1B}, {Key1A, Key1B}}}

\* The positions the sessions find: none, or a balance stored by an earlier run.
StoredBaselines ==
    {[k \in {} |-> None],
     [k \in {Key1A} |-> SnapshotRow([q \in {} |-> None], Key1A, Units(10, 0), 30, 0)]}

InitConc ==
    /\ clients = <<[pan |-> PAN1, name |-> JOHN_DOE, email |-> None, phone |-> None]>>
    /\ positions \in StoredBaselines
    /\ staging = <<>>
    /\ watched = WatchedInit
    /\ now = 0
    /\ lastOp = "init"
    /\ data = <<>>
    /\ is_reset_mode = FALSE
    /\ df = <<>>
    /\ aggregated = EmptyAgg
    /\ nav_map = fetch_latest_navs(WatchedInit, NoFails)
    /\ count = 0
    /\ errors = <<>>
    /\ pre = [clients |-> clients, positions |-> positions]
    /\ prev = NoRun
    /\ sess \in [Sessions -> {[aggregated |-> a, keys |-> SortedKeys(DOMAIN a), i |-> 1,
                               pc |-> "read", current_units |-> 0]
                              : a \in ConcAggregates}]
    /\ NoUpload
    /\ failed = NoFails

\* res = select('total_units').eq('pan', pan).eq('scheme_name', scheme)
\* current_units = float(res.data[0]['total_units']) if res.data else 0.0
ConcRead(s) ==
    /\ sess[s].pc = "read"
    /\ sess' = [sess EXCEPT ![s].current_units =
                               CurrentUnits(positions, sess[s].keys[sess[s].i], FALSE),
                            ![s].pc = "write"]
    /\ UNCHANGED <<clients, positions, staging, watched, now, lastOp, data,
                   is_reset_mode, df, aggregated, nav_map, count, errors, pre, prev,
                   uploadVars, failed>>

\* final_units = current_units + net_change, the valuation and the upsert;
\* then the next key of the loop.
ConcWrite(s) ==
    /\ sess[s].pc = "write"
    /\ LET key         == sess[s].keys[sess[s].i]
           final_units == sess[s].current_units + sess[s].aggregated[key]
           nav         == IF key[2] \in DOMAIN nav_map THEN nav_map[key[2]] ELSE 0
       IN positions' = UpsertSnapshot(positions, key,
                           SnapshotRow(positions, key, final_units, nav, now + 1))
    /\ sess' = [sess EXCEPT ![s].i = @ + 1,
                            ![s].pc = IF sess[s].i = Len(sess[s].keys)
                                      THEN "done" ELSE "read"]
    /\ UNCHANGED <<clients, staging, watched, now, lastOp, data,
                   is_reset_mode, df, aggregated, nav_map, count, errors, pre, prev,
                   uploadVars, failed>>

NextConc == \E s \in Sessions : ConcRead(s) \/ ConcWrite(s)

SpecConc == InitConc /\ [][NextConc]_vars

\* The net change session s merges into key k.
DeltaOf(s, k) == IF k \in DOMAIN sess[s].aggregated THEN sess[s].aggregated[k] ELSE 0

\* C7: when two runs without reset have merged concurrently, every key
\* holds round(b + d1 + d2, 4), b the balance stored before them and d1, d2
\* their net changes of the key: no delta is lost.
C7_NoLostUpdate ==
    (\A s \in Sessions : sess[s].pc = "done")
    => \A k \in {Key1A, Key1B} :
          (\E s \in Sessions : k \in DOMAIN sess[s].aggregated)
          => positions[k].total_units
               = Round4(StoredUnits(pre.positions, k) + DeltaOf(1, k) + DeltaOf(2, k))

----------------------------------------------------------------------------
(* The upload form: "Process & Sync" pressed once over the files chosen,   *)
(* against a store that holds no client yet, or a client, or a client and  *)
(* a position of an earlier run.                                           *)

PersistedClient == [pan |-> PAN1, name |-> JOHN_DOE, email |-> None, phone |-> None]

InitExtract ==
    /\ \E n \in 1..MaxFiles :
         \E pick \in [1..n -> DOMAIN FileCatalogue] :
           files = [i \in 1..n |-> FileCatalogue[pick[i]]]
    /\ pwd_input \in PasswordInputs
    /\ \/ clients = <<>> /\ positions = [k \in {} |-> None]
       \/ clients = <<PersistedClient>> /\ positions \in StoredBaselines
    /\ staging = <<>>
    /\ watched = WatchedInit
    /\ now = 0
    /\ lastOp = "init"
    /\ data = <<>>
    /\ is_reset_mode = FALSE
    /\ df = <<>>
    /\ aggregated = EmptyAgg
    /\ nav_map = EmptyMap
    /\ count = 0
    /\ errors = <<>>
    /\ pre = [clients |-> clients, positions |-> positions]
    /\ prev = NoRun
    /\ sess = <<>>
    /\ all_data = <<>>
    /\ is_lifetime_reset = FALSE
    /\ extracted = <<>>
    /\ failed = NoFails

\* if st.button(...): if files: data, is_reset = process_rta_files(files,
\* pwd_input); if data: sync_to_db(data, is_reset) else "No data found."
ProcessAndSync ==
    /\ lastOp = "init"
    /\ files # <<>>
    /\ \E p \in {process_rta_files(files, pwd_input)} :
          /\ all_data' = p.all_data
          /\ is_lifetime_reset' = p.is_lifetime_reset
          /\ extracted' = p.extracted
          /\ IF p.all_data # <<>>
             THEN Sync(p.all_data, p.is_lifetime_reset)
             ELSE /\ lastOp' = "nodata"
                  /\ UNCHANGED <<clients, positions, staging, watched, now, data,
                                 is_reset_mode, df, aggregated, nav_map, count,
                                 errors, pre, prev, failed>>
    /\ UNCHANGED <<files, pwd_input, sess>>

NextExtract == ProcessAndSync

SpecExtract == InitExtract /\ [][NextExtract]_vars

\* The ledger rows among the rows read.
IsLedger(e) == e.layout \in {"r33", "kfin_t"}

\* The description (nature) cell of a ledger row as the file holds it.
DescriptionOf(e) ==
    RowGet(files[e.file].columns, files[e.file].rows[e.idx + 1],
           IF e.layout = "r33" THEN <<"T","R","X","N","_","T","Y","P","E","_","F","L","A","G">>
           ELSE <<"T","r","a","n","s","a","c","t","i","o","n"," ","D","e","s","c","r","i","p","t","i","o","n">>)

\* The description holds a pledging or a rejected-transaction marker,
\* whatever the case of its letters.
ExclusionMarked(e) ==
    /\ DescriptionOf(e).t = "str"
    /\ \/ Contains(Lower(DescriptionOf(e).s), <<"p","l","e","d","g","i","n","g">>)
       \/ Contains(Lower(DescriptionOf(e).s), <<"r","e","j",".">>)

\* The rows read that were appended to all_data.
KeptRows == SelectSeq(extracted, LAMBDA e : e.outcome = "kept")

\* C9: a ledger row of either layout whose description holds an exclusion
\* keyword is dropped at extraction: it is not among the rows returned, and
\* the rows returned are all that is counted, written to the staging log
\* and aggregated into positions.
C9_ExclusionDropsRow ==
    /\ \A i \in DOMAIN extracted :
          IsLedger(extracted[i]) /\ ExclusionMarked(extracted[i])
          => extracted[i].outcome # "kept"
    /\ all_data = [i \in DOMAIN KeptRows |-> KeptRows[i].t]
    /\ lastOp = "sync"
       => /\ count = Len(all_data)
          /\ Len(staging) = Len(all_data)
          /\ Len(df) = Len(all_data)
          /\ \A k \in DOMAIN aggregated :
                aggregated[k] = SumOf([i \in DOMAIN RowsOfKey(k) |->
                                         SignedUnits(RowsOfKey(k)[i])])
    /\ lastOp = "nodata" => staging = <<>> /\ positions = pre.positions

\* The keyword sets the classification rule names: credit (purchase,
\* systematic installment, switch-in, reinvestment) and debit (redemption,
\* transfer, withdrawal, switch-out, lateral-shift-out).
CreditKeywords == {<<"P","U","R","C","H","A","S","E">>, <<"S","Y","S","T","E","M","A","T","I","C">>, <<"S","W","I","T","C","H"," ","I","N">>, <<"R","E","I","N","V","E","S","T","M","E","N","T">>}
DebitKeywords == {<<"R","E","D","E","M","P","T","I","O","N">>, <<"T","R","A","N","S","F","E","R">>, <<"W","I","T","H","D","R","A","W","A","L">>, <<"S","W","I","T","C","H"," ","O","U","T">>,
                  <<"S","H","I","F","T"," ","O","U","T">>}

\* The description of a ledger row in upper case.
NatureOf(e) == Upper(clean_str(DescriptionOf(e)))

\* C10: the action of every ledger row kept is the one the keyword sets
\* give its description (ADD for a credit keyword, DEDUCT for a debit
\* keyword, unknown otherwise), and two ledger rows with the same
\* description have the same action, whatever their layout or file.
C10_ActionFromDescription ==
    /\ \A i \in DOMAIN KeptRows :
          IsLedger(KeptRows[i])
          => KeptRows[i].t.action
               = ActionOf(NatureOf(KeptRows[i]), CreditKeywords, DebitKeywords)
    /\ \A i, j \in DOMAIN KeptRows :
          /\ IsLedger(KeptRows[i]) /\ IsLedger(KeptRows[j])
          /\ NatureOf(KeptRows[i]) = NatureOf(KeptRows[j])
          => KeptRows[i].t.action = KeptRows[j].t.action

----------------------------------------------------------------------------
(* Prices, identity sync and the report, checked under Spec *)

\* C12: once run_engine has stored a price p for a watched scheme, a later
\* sync_to_db run that merges a key of that scheme gets nav = p from the
\* price lookup and writes nav = p and current_value = round(newUnits * p, 2).
C12_LatestPriceValuation ==
    lastOp = "sync"
    => \A k \in DOMAIN aggregated : \A i \in DOMAIN watched :
          (watched[i].scheme_name = k[2] /\ watched[i].last_nav_date # None)
          => /\ k[2] \in DOMAIN nav_map
             /\ nav_map[k[2]] = watched[i].current_nav
             /\ positions[k].nav = watched[i].current_nav
             /\ positions[k].current_value
                  = Round2((CurrentUnits(pre.positions, k, is_reset_mode)
                            + aggregated[k]) * watched[i].current_nav)

\* The last non-null value of a field among the rows of df that carry pan p,
\* None when no such row has one.
LastNonNull(p, f) ==
    LET having == {i \in DOMAIN df : df[i].pan = p /\ df[i][f] # None}
    IN IF having = {} THEN None
       ELSE df[CHOOSE i \in having : \A j \in having : j <= i][f]

\* The value a field of the stored client p had before the run, None when
\* no client p was stored.
StoredField(p, f) ==
    IF \E i \in DOMAIN pre.clients : pre.clients[i].pan = p
    THEN pre.clients[CHOOSE i \in DOMAIN pre.clients : pre.clients[i].pan = p][f]
    ELSE None

\* C13: after a run, every identifier that some row of the batch carries
\* together with a name has a client record, and each of its name, email and
\* phone is the last non-null value the batch has for that identifier, or
\* the value stored before when the batch has none.
C13_IdentityMergePolicy ==
    lastOp = "sync"
    => \A p \in {df[i].pan : i \in {j \in DOMAIN df :
                                       df[j].pan # None /\ df[j].name # None}} :
          \E i \in DOMAIN clients :
             /\ clients[i].pan = p
             /\ \A f \in {"name", "email", "phone"} :
                   clients[i][f] = IF LastNonNull(p, f) # None
                                   THEN LastNonNull(p, f) ELSE StoredField(p, f)

\* What the entries sync_to_db appends to errors report: the reset, a failed
\* reset, a failed staging insert, a failed position merge, an empty batch.
SyncMessages == {"RESET TRIGGERED", "Reset Failed", "Staging Error",
                 "Portfolio Error", "No data found"}

\* C18: when a row of the batch has a name and its identifier is still null
\* after resolution, the errors sync_to_db returns hold an entry that
\* reports an unresolved row.
C18_UnresolvedSurfaced ==
    lastOp = "sync"
    => ((\E i \in DOMAIN df : df[i].name # None /\ df[i].pan = None)
        => \E j \in DOMAIN errors : errors[j].kind \notin SyncMessages)

----------------------------------------------------------------------------
(* One sync_to_db run in which store calls may raise: the run meets a      *)
(* store of an earlier run, takes one of a few batches over two clients    *)
(* and three keys, and every combination of raising store calls.           *)

PAN2 == <<"P","Q","R","S","T","5","6","7","8","K">>
JANE_ROE == <<"J","A","N","E"," ","R","O","E">>
jane_roe == <<"j","a","n","e"," ","r","o","e">>
Email1 == <<"j","d","@","x",".","i","n">>
Email2 == <<"j","r","@","y",".","i","n">>
Phone2 == <<"9","8","7","6","5">>

Key2A == <<PAN2, FundA>>

\* A row of all_data.
T(pan, name, email, phone, scheme, units, action) ==
    [pan |-> pan, name |-> name, email |-> email, phone |-> phone,
     scheme |-> scheme, units |-> units, action |-> action]

\* The batches: identity and ledger rows of one client over two schemes; an
\* identifier whose first row has no name, then a row with its name; ledger
\* rows of two clients and a row without scheme; two identity rows.
FailBatches == {
    << T(PAN1, JOHN_DOE, Email1, None, None, 0, "None"),
       T(None, john_doe, None, None, FundA, Units(10, 0), "ADD"),
       T(None, john_doe, None, None, FundB, Units(5, 0), "DEDUCT") >>,
    << T(PAN2, None, Email2, None, None, 0, "None"),
       T(PAN2, JANE_ROE, None, None, None, 0, "None"),
       T(None, john_doe, None, None, FundA, Units(4, 16), "ADD") >>,
    << T(None, jane_roe, None, None, FundA, Units(2, 0), "ADD"),
       T(None, john_doe, None, None, FundA, Units(1, 0), "ADD"),
       T(None, john_doe, None, None, None, Units(3, 0), "ADD") >>,
    << T(PAN1, JOHN_DOE, None, None, None, 0, "None"),
       T(PAN2, JANE_ROE, None, Phone2, None, 0, "None") >> }

\* The stores the run may meet: empty; one client with one position; two
\* clients with positions under three keys.
FailStores == {
    [clients |-> <<>>, positions |-> [k \in {} |-> None]],
    [clients |-> <<PersistedClient>>,
     positions |-> [k \in {Key1A} |->
                      SnapshotRow([q \in {} |-> None], k, Units(10, 0), 30, 0)]],
    [clients |-> <<PersistedClient,
                   [pan |-> PAN2, name |-> JANE_ROE, email |-> Email2, phone |-> None]>>,
     positions |-> [k \in {Key1A, Key1B, Key2A} |->
                      SnapshotRow([q \in {} |-> None], k, Units(10, 0),
                                  IF k[2] = FundA THEN 30 ELSE 0, 0)]] }

\* Which store calls of the run raise.
FailChoices ==
    [clients_select : BOOLEAN, nav_select : BOOLEAN, delete : BOOLEAN,
     client_upsert : SUBSET {PAN1, PAN2}, staging : BOOLEAN,
     pos_read : SUBSET {Key1A}, pos_upsert : SUBSET {Key1A, Key1B}]

InitFail ==
    /\ \E st \in FailStores : clients = st.clients /\ positions = st.positions
    /\ staging = <<>>
    /\ watched = WatchedInit
    /\ now = 0
    /\ lastOp = "init"
    /\ data = <<>>
    /\ is_reset_mode = FALSE
    /\ df = <<>>
    /\ aggregated = EmptyAgg
    /\ nav_map = EmptyMap
    /\ count = 0
    /\ errors = <<>>
    /\ pre = [clients |-> clients, positions |-> positions]
    /\ prev = NoRun
    /\ sess = <<>>
    /\ NoUpload
    /\ failed = NoFails

\* sync_to_db(data, is_reset) with the store calls of fails raising.
SyncFailing ==
    /\ lastOp = "init"
    /\ \E batch \in FailBatches : \E reset \in BOOLEAN : \E fails \in FailChoices :
          SyncWith([i \in DOMAIN batch |-> WithSourceRow(batch[i], i - 1)], reset, fails)
    /\ UNCHANGED <<sess, uploadVars>>

NextFail == SyncFailing

SpecFail == InitFail /\ [][NextFail]_vars

----------------------------------------------------------------------------
(* Failure isolation and frame of sync_to_db, checked under SpecFail *)

\* The keys of the run whose select or upsert raised.
FailedKeys ==
    {k \in DOMAIN aggregated :
        (~is_reset_mode /\ k \in failed.pos_read) \/ k \in failed.pos_upsert}

\* The run as it would have gone over the same store with the calls of
\* fails raising.
RunWith(fails) == sync_to_db(PreStore, data, is_reset_mode, now, fails)

\* The identifiers of df.
PansOf(rows) == {rows[i].pan : i \in DOMAIN rows} \ {None}

ClientRows(cs, p) == {cs[i] : i \in {j \in DOMAIN cs : cs[j].pan = p}}

\* The failures of the reads alone, and of the reads and the reset delete.
ReadFails == [NoFails EXCEPT !.clients_select = failed.clients_select,
                             !.nav_select = failed.nav_select]
ReadAndDeleteFails == [ReadFails EXCEPT !.delete = failed.delete]

\* C14: whatever combination of the reset delete, identity upserts, the
\* staging insert and position upserts raises, every identity upsert that
\* does not raise itself is made, the staging insert (when it does not
\* raise itself) writes every row, the reset delete (when it does not raise
\* itself) removes the positions of the batch's identifiers and every key
\* whose own calls do not raise is merged.
C14_SubWriteIsolation ==
    lastOp = "sync"
    => /\ \A p \in {PAN1, PAN2} \ failed.client_upsert :
             ClientRows(clients, p) = ClientRows(RunWith(ReadFails).clients, p)
       /\ ~failed.staging => staging = RunWith(ReadFails).staging
       /\ (is_reset_mode /\ ~failed.delete)
          => \A k \in DOMAIN pre.positions :
                (k[1] \in PansOf(df) /\ k \notin DOMAIN aggregated)
                => k \notin DOMAIN positions
       /\ \A k \in (DOMAIN aggregated) \ FailedKeys :
             /\ k \in DOMAIN positions
             /\ positions[k] = RunWith(ReadAndDeleteFails).positions[k]

\* C14 witness: the staging insert and one identity upsert raised, and the
\* other identity upsert and a position merge were made.
C14_Witness ==
    /\ lastOp = "sync"
    /\ failed.staging /\ failed.client_upsert = {PAN1}
    /\ staging = <<>>
    /\ ClientRows(clients, PAN2) # ClientRows(pre.clients, PAN2)
    /\ \E k \in DOMAIN aggregated :
          k \in DOMAIN pre.positions /\ positions[k] # pre.positions[k]

\* The identifiers the run issued an identity upsert for.
UpsertedPans ==
    {p \in PansOf(df) :
        \E i \in DOMAIN df :
           /\ df[i].pan = p /\ df[i].name # None
           /\ \A j \in 1..(i - 1) : df[j].pan # p}

\* C15: every write of the run that raised has an entry in the errors
\* returned: a raising identity upsert an entry for its identifier, a
\* raising staging insert a staging entry, a raising position select or
\* upsert an entry for its key, a raising reset delete a reset entry.
C15_WriteFailuresCaptured ==
    lastOp = "sync"
    => /\ \A p \in UpsertedPans \cap failed.client_upsert :
             \E j \in DOMAIN errors :
                errors[j].pan = p /\ errors[j].kind # "Portfolio Error"
       /\ (failed.staging
           => \E j \in DOMAIN errors : errors[j].kind = "Staging Error")
       /\ \A k \in FailedKeys :
             \E j \in DOMAIN errors :
                errors[j] = [kind |-> "Portfolio Error", pan |-> k[1]]
       /\ (is_reset_mode /\ failed.delete /\ PansOf(df) # {}
           => \E j \in DOMAIN errors : errors[j].kind = "Reset Failed")

\* C17: in a run whose store calls all succeed, the aggregated mapping is
\* made of the rows with identifier and scheme alone and without reset no
\* position outside it changes; every row of the batch is in the staging
\* log; every identifier a row carries together with a name has a client
\* record after the run.
C17_OnlyFullRowsAggregate ==
    (lastOp = "sync" /\ failed = NoFails)
    => /\ DOMAIN aggregated = {<<df[i].pan, df[i].scheme>> :
                                  i \in {j \in DOMAIN df : df[j].pan # None
                                                          /\ df[j].scheme # None}}
       /\ \A k \in DOMAIN aggregated :
             aggregated[k] = SumOf([i \in DOMAIN RowsOfKey(k) |->
                                      SignedUnits(RowsOfKey(k)[i])])
       /\ ~is_reset_mode
          => \A k \in DOMAIN pre.positions :
                k \notin DOMAIN aggregated
                => k \in DOMAIN positions /\ positions[k] = pre.positions[k]
       /\ staging = [i \in DOMAIN df |-> StagingRecord(df[i])]
       /\ \A i \in DOMAIN df :
             (df[i].pan # None /\ df[i].name # None)
             => \E j \in DOMAIN clients : clients[j].pan = df[i].pan

\* C19: a run without reset deletes no position and leaves every position
\* outside its aggregated mapping as it was; a reset run leaves every
\* position of an identifier that is not in the batch as it was.
C19_FrameOfMerge ==
    lastOp = "sync"
    => \A k \in DOMAIN pre.positions :
          /\ ~is_reset_mode => k \in DOMAIN positions
          /\ (~is_reset_mode /\ k \notin DOMAIN aggregated)
             => positions[k] = pre.positions[k]
          /\ (is_reset_mode /\ k[1] \notin PansOf(df))
             => k \in DOMAIN positions /\ positions[k] = pre.positions[k]

\* C19 witness: a reset run removed a position of an identifier of the batch
\* and kept the position of another identifier.
C19_Witness ==
    /\ lastOp = "sync" /\ is_reset_mode
    /\ \E k \in DOMAIN pre.positions : k \notin DOMAIN positions
    /\ \E k \in DOMAIN pre.positions :
          k[1] \notin PansOf(df) /\ k \in DOMAIN positions

----------------------------------------------------------------------------
(* Row failures and the reset flag of an upload, checked under SpecExtract *)

\* The units cell of a ledger row as the file holds it.
UnitsOf(e) ==
    RowGet(files[e.file].columns, files[e.file].rows[e.idx + 1],
           IF e.layout = "r33" THEN <<"U","N","I","T","S">> ELSE <<"U","n","i","t","s">>)

\* A ledger row that fails extraction: its description cell is missing or
\* empty, or its units cell holds a text that is no number.
RowFailure(e) ==
    /\ IsLedger(e)
    /\ \/ clean_str(OrEmpty(DescriptionOf(e))) = None
       \/ UnitsOf(e).t = "str" /\ FloatOfText(UnitsOf(e).s) = Bad

\* C16: a row that fails extraction is skipped alone: every row of its file
\* is gone through, the failing row is not retained (with a default in
\* place of the bad value), and the report of the run (the errors
\* sync_to_db returns) holds an entry for the failure.
C16_RowFailureRecorded ==
    \A i \in DOMAIN extracted :
       RowFailure(extracted[i])
       => /\ \A n \in DOMAIN files[extracted[i].file].rows :
                \E j \in DOMAIN extracted :
                   extracted[j].file = extracted[i].file /\ extracted[j].idx = n - 1
          /\ extracted[i].outcome # "kept"
          /\ lastOp = "sync"
          /\ \E j \in DOMAIN errors : errors[j].kind \notin SyncMessages

\* The name of a file carries the lifetime marker.
HasMarker(name) ==
    \E i \in 0..(Len(name) - 7) :
       Upper(SubSeq(name, i + 1, i + 7)) = <<"A","P","R","2","0","2","4">>
       \/ (i + 8 <= Len(name) /\ Upper(SubSeq(name, i + 1, i + 8)) = <<"L","I","F","E","T","I","M","E">>)

\* C20: the reset flag of an upload is set exactly when some file's name
\* carries APR2024 or LIFETIME in any case, whether or not that file could
\* be read; it is the reset mode of the sync, which covers the rows kept
\* from every file: each identifier of the batch then holds exactly the
\* aggregated keys, each at round(delta, 4), whatever was stored before.
C20_ResetFlagBatchWide ==
    lastOp \in {"sync", "nodata"}
    => /\ is_lifetime_reset = (\E i \in DOMAIN files : HasMarker(files[i].name))
       /\ lastOp = "sync"
          => /\ is_reset_mode = is_lifetime_reset
             /\ Len(df) = Len(KeptRows)
       /\ (lastOp = "sync" /\ is_lifetime_reset)
          => \A p \in PansOf(df) :
                /\ {k \in DOMAIN positions : k[1] = p}
                     = {k \in DOMAIN aggregated : k[1] = p}
                /\ \A k \in DOMAIN aggregated :
                      k[1] = p => positions[k].total_units = Round4(aggregated[k])

\* C20 witness: the file with the marker could not be opened, the rows came
\* from a file without the marker, and a stored balance was replaced by the
\* delta of the batch instead of being added to.
C20_Witness ==
    /\ lastOp = "sync" /\ is_lifetime_reset
    /\ \E i \in DOMAIN files :
          /\ HasMarker(files[i].name)
          /\ \A j \in DOMAIN extracted : extracted[j].file # i
    /\ \A j \in DOMAIN KeptRows : ~HasMarker(files[KeptRows[j].file].name)
    /\ \E k \in DOMAIN aggregated :
          /\ k \in DOMAIN pre.positions
          /\ pre.positions[k].total_units > 0
          /\ positions[k].total_units = Round4(aggregated[k])

====
